---- MODULE Spec2Model ----
(***************************************************************************)
(* WGT golf calculator (calculator.py): the angle factor, the four-step    *)
(* wind adjustment, and the Streamlit page that calls them.                *)
(*                                                                         *)
(* Python's float is IEEE-754 binary64.  A finite float is modelled as     *)
(*     [neg |-> BOOLEAN, m |-> <mantissa>, e |-> Int]                      *)
(* with value (-1)^neg * m * 2^e, where the mantissa is a natural number   *)
(* of exactly Precision bits (or zero).  Mantissas exceed TLC's integers,  *)
(* so a natural number is a little-endian sequence of limbs base Base with *)
(* no leading zero limb (zero is <<>>).  Every arithmetic operation is     *)
(* computed exactly and then rounded to nearest, ties to even, as the      *)
(* hardware does.  A result of 2^(MaxExponent + 1) or more overflows to an  *)
(* infinity, [neg |-> BOOLEAN, m |-> <<>>, e |-> MaxExponent + 1].         *)
(* Every float is a multiple of 2^MinExponent: a result below              *)
(* 2^(MinExponent + Precision - 1) is rounded to such a multiple (gradual  *)
(* underflow, down to zero), and this subnormal is held like any float,    *)
(* its mantissa shifted up to Precision bits.  NaN is outside the model:   *)
(* no operation of the program on finite arguments yields one.  The sign   *)
(* of zero is not kept (-0.0 == 0.0).                                      *)
(***************************************************************************)
EXTENDS Integers, Sequences, FiniteSets, TLC

\* ------------------------------------------------------------ naturals
Base == 2^15

Precision == 53

Max(S) == CHOOSE i \in S : \A j \in S : j <= i

\* a without its leading zero limbs
BTrim(a) ==
    LET nz == {i \in DOMAIN a : a[i] /= 0}
    IN  IF nz = {} THEN <<>> ELSE SubSeq(a, 1, Max(nz))

\* limb i of a; 0 outside a
BLimb(a, i) == IF i \in DOMAIN a THEN a[i] ELSE 0

\* a natural number below Base^3
BFromNat(n) == BTrim(<<n % Base, (n \div Base) % Base, n \div (Base * Base)>>)

\* -1, 0 or 1 as a < b, a = b, a > b
BCmp(a, b) ==
    IF Len(a) < Len(b) THEN -1
    ELSE IF Len(a) > Len(b) THEN 1
    ELSE LET diff == {i \in DOMAIN a : a[i] /= b[i]}
         IN  IF diff = {} THEN 0
             ELSE IF a[Max(diff)] < b[Max(diff)] THEN -1 ELSE 1

\* a + b: limb i receives a carry when a lower limb generates one and every
\* limb between passes it on
BAdd(a, b) ==
    IF a = <<>> THEN b
    ELSE IF b = <<>> THEN a
    ELSE
    LET s(i) == BLimb(a, i) + BLimb(b, i)
        carry(i) == \E j \in 1 .. (i - 1) :
                        /\ s(j) >= Base
                        /\ \A k \in (j + 1) .. (i - 1) : s(k) = Base - 1
    IN  BTrim([i \in 1 .. (Max({Len(a), Len(b)}) + 1) |->
                  (s(i) + (IF carry(i) THEN 1 ELSE 0)) % Base])

\* a - b, for a >= b: limb i lends when a lower limb borrows and every limb
\* between is level
BSub(a, b) ==
    IF b = <<>> THEN a
    ELSE
    LET borrow(i) == \E j \in 1 .. (i - 1) :
                         /\ BLimb(a, j) < BLimb(b, j)
                         /\ \A k \in (j + 1) .. (i - 1) : BLimb(a, k) = BLimb(b, k)
    IN  BTrim([i \in 1 .. Len(a) |->
                  (Base + BLimb(a, i) - BLimb(b, i)
                      - (IF borrow(i) THEN 1 ELSE 0)) % Base])

\* a * k, for 0 <= k < Base: the low halves of the limb products plus their
\* high halves one limb up
BMulSmall(a, k) ==
    IF a = <<>> \/ k = 0 THEN <<>>
    ELSE BAdd(BTrim([i \in DOMAIN a |-> (a[i] * k) % Base]),
              BTrim([i \in 1 .. (Len(a) + 1) |-> (BLimb(a, i - 1) * k) \div Base]))

\* a * Base^n
BShiftLimbs(a, n) == IF a = <<>> THEN <<>> ELSE [i \in 1 .. n |-> 0] \o a

RECURSIVE BMul(_, _)
BMul(a, b) ==
    IF b = <<>> THEN <<>>
    ELSE LET rest == BMul(a, Tail(b))
         IN  IF rest = <<>> THEN BMulSmall(a, Head(b))
             ELSE BAdd(BMulSmall(a, Head(b)), BShiftLimbs(rest, 1))

\* a * 2^n
BShl(a, n) ==
    IF a = <<>> \/ n = 0 THEN a
    ELSE
    LET t == n % 15
        w == n \div 15
    IN  BTrim([i \in 1 .. (Len(a) + w + 1) |->
                  IF i <= w THEN 0
                  ELSE (BLimb(a, i - w) % 2^(15 - t)) * 2^t
                           + BLimb(a, i - w - 1) \div 2^(15 - t)])

\* floor(a / 2^n)
BShr(a, n) ==
    IF a = <<>> \/ n = 0 THEN a
    ELSE
    LET t == n % 15
        w == n \div 15
    IN  BTrim([i \in 1 .. Len(a) |->
                  BLimb(a, i + w) \div 2^t
                      + (BLimb(a, i + w + 1) % 2^t) * 2^(15 - t)])

\* number of bits of a
BBitLen(a) ==
    IF a = <<>> THEN 0
    ELSE 15 * (Len(a) - 1)
             + (CHOOSE n \in 1 .. 15 : 2^(n - 1) <= a[Len(a)] /\ a[Len(a)] < 2^n)

BIsOdd(a) == a /= <<>> /\ a[1] % 2 = 1

\* ------------------------------------------------------------ floats
\* the largest exponent of a finite float: finite values are below
\* 2^(MaxExponent + 1)
MaxExponent == 1023

\* the exponent of the smallest positive float, 2^MinExponent
MinExponent == -1074

FZero == [neg |-> FALSE, m |-> <<>>, e |-> 0]

\* inf, -inf
FInf(neg) == [neg |-> neg, m |-> <<>>, e |-> MaxExponent + 1]

FIsZero(x) == x.m = <<>> /\ x.e = 0

FIsInf(x) == x.m = <<>> /\ x.e /= 0

\* the float of mantissa m (Precision bits) and exponent e; it overflows to
\* an infinity when m * 2^e >= 2^(MaxExponent + 1)
FFinite(neg, m, e) ==
    IF e + Precision > MaxExponent + 1 THEN FInf(neg)
    ELSE [neg |-> neg, m |-> m, e |-> e]

\* the float k * 2^q for k /= 0 of len bits, its mantissa brought to
\* Precision bits; k of Precision + 1 bits is 2^Precision, from a round-up
\* that carried
FNormalize(neg, k, q, len) ==
    IF len > Precision THEN FFinite(neg, BShr(k, 1), q + 1)
    ELSE FFinite(neg, BShl(k, Precision - len), q - (Precision - len))

\* FRound's result once the kept bits q1, in units of 2^q, are known
FRoundCarry(neg, q1, q) ==
    IF q1 = <<>> THEN FZero ELSE FNormalize(neg, q1, q, BBitLen(q1))

\* The kept bits of m after sh > 0 bits are dropped, rounded to nearest, ties
\* to even.  q2 is m without its lowest sh - 1 bits: its lowest bit is the
\* rounding bit, and the bits dropped below it are sticky.
FRoundUp(m, sh, q2) ==
    IF BIsOdd(q2) /\ (BShl(q2, sh - 1) /= m \/ BIsOdd(BShr(q2, 1)))
    THEN BAdd(BShr(q2, 1), <<1>>)
    ELSE BShr(q2, 1)

\* FRound for m /= 0 of len bits, to a multiple of 2^q
FRoundTo(neg, m, e, len, q) ==
    IF q <= e THEN FNormalize(neg, m, e, len)
    ELSE FRoundCarry(neg, FRoundUp(m, q - e, BShr(m, q - e - 1)), q)

\* FRound for m /= 0 of len bits: Precision bits are kept, fewer where the
\* last of them would be below 2^MinExponent
FRoundLen(neg, m, e, len) ==
    FRoundTo(neg, m, e, len,
             IF e + len - Precision < MinExponent THEN MinExponent
             ELSE e + len - Precision)

\* (-1)^neg * m * 2^e rounded to nearest, ties to even, to Precision bits
\* (fewer in the subnormal range); an infinity when the rounded value is out
\* of range
FRound(neg, m, e) ==
    IF m = <<>> THEN FZero ELSE FRoundLen(neg, m, e, BBitLen(m))

\* float(n) for an integer n that a float holds exactly
FromInt(n) == FRound(n < 0, BFromNat(IF n < 0 THEN -n ELSE n), 0)

\* x * 2^k for finite x
FScale(x, k) == IF FIsZero(x) THEN x ELSE FRound(x.neg, x.m, x.e + k)

FNeg(x) == IF FIsZero(x) THEN x ELSE [x EXCEPT !.neg = ~@]

\* |x| compared with |y|: -1, 0, 1 (an infinity has the largest exponent)
FCmpMag(x, y) ==
    IF FIsZero(x) THEN (IF FIsZero(y) THEN 0 ELSE -1)
    ELSE IF FIsZero(y) THEN 1
    ELSE IF x.e < y.e THEN -1
    ELSE IF x.e > y.e THEN 1
    ELSE BCmp(x.m, y.m)

\* x compared with y: -1, 0, 1
FCmp(x, y) ==
    IF x.neg /\ ~y.neg THEN -1
    ELSE IF ~x.neg /\ y.neg THEN 1
    ELSE IF x.neg THEN -FCmpMag(x, y)
    ELSE FCmpMag(x, y)

FLt(x, y) == FCmp(x, y) < 0

FLe(x, y) == FCmp(x, y) <= 0

FAbs(x) == [x EXCEPT !.neg = FALSE]

\* x + y for the mantissas mx, my of x, y brought to the common exponent e
FAddAligned(xneg, yneg, mx, my, e) ==
    IF xneg = yneg THEN FRound(xneg, BAdd(mx, my), e)
    ELSE IF BCmp(mx, my) >= 0 THEN FRound(xneg, BSub(mx, my), e)
    ELSE FRound(yneg, BSub(my, mx), e)

\* x + y (not inf + -inf)
FAdd(x, y) ==
    IF FIsZero(x) THEN y
    ELSE IF FIsZero(y) THEN x
    ELSE IF FIsInf(x) THEN x
    ELSE IF FIsInf(y) THEN y
    ELSE LET e == IF x.e < y.e THEN x.e ELSE y.e
         IN  FAddAligned(x.neg, y.neg, BShl(x.m, x.e - e), BShl(y.m, y.e - e), e)

\* x - y
FSub(x, y) == FAdd(x, FNeg(y))

\* x * y (not 0 * inf)
FMul(x, y) ==
    IF FIsZero(x) \/ FIsZero(y) THEN FZero
    ELSE IF FIsInf(x) \/ FIsInf(y) THEN FInf(x.neg /= y.neg)
    ELSE FRound(x.neg /= y.neg, BMul(x.m, y.m), x.e + y.e)

\* the value of a natural number of at most two limbs
BToNat(a) ==
    IF a = <<>> THEN 0 ELSE IF Len(a) = 1 THEN a[1] ELSE a[1] + Base * a[2]

RECURSIVE BDivFix(_, _, _)
BDivFix(r, d, q) ==
    \* <<q + floor(r / d), r mod d>>
    IF BCmp(r, d) >= 0 THEN BDivFix(BSub(r, d), d, q + 1) ELSE <<q, r>>

\* BDivDigit for rr = r * 2^14 and an estimate est <= floor(rr / d)
BDivDigitEst(rr, d, est) ==
    IF est = 0 THEN BDivFix(rr, d, 0)
    ELSE BDivFix(BSub(rr, BMulSmall(d, est)), d, est)

\* BDivDigit for rr = r * 2^14: the digit is estimated from below by the
\* leading bits of rr and d
BDivDigitFrom(rr, d) ==
    BDivDigitEst(rr, d,
                 BToNat(BShr(rr, Precision - 15))
                     \div (BToNat(BShr(d, Precision - 15)) + 1))

\* One quotient digit of 14 bits, for r < d and d of Precision bits:
\* <<floor(r * 2^14 / d), (r * 2^14) mod d>>.  The digit is first estimated
\* from below and then raised until the remainder is less than d.
BDivDigit(r, d) == BDivDigitFrom(BShl(r, 14), d)

\* the quotient q with the digit of t == <<digit, remainder>> appended
FDivAppend(q, t) == <<BAdd(BShl(q, 14), BFromNat(t[1])), t[2]>>

\* one more digit after s == <<quotient, remainder>>; none left to compute
\* once the division is exact
FDivNext(s, d) ==
    IF s[2] = <<>> THEN <<BShl(s[1], 14), <<>>>>
    ELSE FDivAppend(s[1], BDivDigit(s[2], d))

RECURSIVE FDivDigits(_, _, _)
FDivDigits(r, d, n) ==
    \* <<floor(r * 2^(14 * n) / d), (r * 2^(14 * n)) mod d>>, for r < d: n
    \* quotient digits
    IF r = <<>> \/ n = 0 THEN <<<<>>, r>>
    ELSE FDivNext(FDivDigits(r, d, n - 1), d)

\* the 57-bit quotient: the leading bit q0 above four digits of 14 bits
FDivQuot(q0, digits) == BAdd(BShl(BFromNat(q0), 56), digits)

\* the quotient q0, s[1] rounded once, with a sticky bit below it when the
\* remainder s[2] is not zero
FDivRound(neg, e, q0, s) ==
    IF s[2] = <<>>
    THEN FRound(neg, FDivQuot(q0, s[1]), e - 56)
    ELSE FRound(neg, BAdd(BMulSmall(FDivQuot(q0, s[1]), 2), <<1>>), e - 57)

\* x / y, for y /= 0 (not inf / inf): long division of the mantissas to 57
\* quotient bits (one bit, then four digits of 14)
FDiv(x, y) ==
    IF FIsZero(x) THEN FZero
    ELSE IF FIsInf(x) THEN FInf(x.neg /= y.neg)
    ELSE IF FIsInf(y) THEN FZero
    ELSE IF BCmp(x.m, y.m) >= 0
    THEN FDivRound(x.neg /= y.neg, x.e - y.e, 1,
                   FDivDigits(BSub(x.m, y.m), y.m, 4))
    ELSE FDivRound(x.neg /= y.neg, x.e - y.e, 0, FDivDigits(x.m, y.m, 4))

\* ------------------------------------------------------------ Python values
\* x / y on floats: ZeroDivisionError when y == 0.0
ZeroDivisionError == "ZeroDivisionError"

RECURSIVE BModShift(_, _, _)
BModShift(r, d, i) ==
    \* r mod d, for r < d * 2^(i + 1): d * 2^i, ..., d * 2, d are taken off
    \* in turn where they fit
    IF i < 0 THEN r
    ELSE IF BCmp(r, BShl(d, i)) >= 0 THEN BModShift(BSub(r, BShl(d, i)), d, i - 1)
    ELSE BModShift(r, d, i - 1)

\* C's fmod(vx, wx) for finite vx and wx /= 0: vx - n * wx for the integer
\* n = trunc(vx / wx).  The remainder has the sign of vx and is exact.
fmod(vx, wx) ==
    IF FCmpMag(vx, wx) < 0 THEN vx
    ELSE FRound(vx.neg,
                BModShift(BShl(vx.m, vx.e - wx.e), wx.m, vx.e - wx.e),
                wx.e)

\* float_rem without the move to the divisor's sign (C's %)
float_rem_truncating(vx, wx) == fmod(vx, wx)

\* float_rem after mod = fmod(vx, wx): "if mod and (wx < 0) != (mod < 0):
\* mod += wx", a float addition that rounds
float_rem_sign(mod, wx) ==
    IF ~FIsZero(mod) /\ (wx.neg /= mod.neg) THEN FAdd(mod, wx) ELSE mod

\* Python's float % (float_rem): fmod, then moved to the divisor's sign
float_rem(vx, wx) == float_rem_sign(fmod(vx, wx), wx)

\* A str is a sequence of one-character strings.
ascii_uppercase == <<"A","B","C","D","E","F","G","H","I","J","K","L","M",
                     "N","O","P","Q","R","S","T","U","V","W","X","Y","Z">>

ascii_lowercase == <<"a","b","c","d","e","f","g","h","i","j","k","l","m",
                     "n","o","p","q","r","s","t","u","v","w","x","y","z">>

lower_char(c) ==
    IF \E i \in DOMAIN ascii_uppercase : ascii_uppercase[i] = c
    THEN ascii_lowercase[CHOOSE i \in DOMAIN ascii_uppercase : ascii_uppercase[i] = c]
    ELSE c

\* str.lower()
lower(s) == [i \in DOMAIN s |-> lower_char(s[i])]

\* the literals of calculator.py
Literal_0_1 == FDiv(FromInt(1), FromInt(10))

Literal_1 == FromInt(1)

Literal_90 == FromInt(90)

Literal_180 == FromInt(180)

Literal_270 == FromInt(270)

Literal_360 == FromInt(360)

Literal_225_0 == FromInt(225)

Literal_180_0 == FromInt(180)

Literal_tailwind == <<"t","a","i","l","w","i","n","d">>

Literal_headwind == <<"h","e","a","d","w","i","n","d">>

InvalidWindDirection == "Invalid wind direction. Please use 'headwind' or 'tailwind'."

\* ------------------------------------------------------------ calculator.py
\* lines 19-32: the quadrant's formula for normalized_angle
quadrant_factor(normalized_angle) ==
    IF FLe(FZero, normalized_angle) /\ FLe(normalized_angle, Literal_90)
    THEN FSub(Literal_1,
              FMul(FDiv(normalized_angle, Literal_90),
                   FSub(Literal_1, Literal_0_1)))
    ELSE IF FLt(Literal_90, normalized_angle) /\ FLe(normalized_angle, Literal_180)
    THEN FAdd(Literal_0_1,
              FMul(FDiv(FSub(normalized_angle, Literal_90), Literal_90),
                   FSub(Literal_1, Literal_0_1)))
    ELSE IF FLt(Literal_180, normalized_angle) /\ FLe(normalized_angle, Literal_270)
    THEN FSub(Literal_1,
              FMul(FDiv(FSub(normalized_angle, Literal_180), Literal_90),
                   FSub(Literal_1, Literal_0_1)))
    ELSE FAdd(Literal_0_1,
              FMul(FDiv(FSub(normalized_angle, Literal_270), Literal_90),
                   FSub(Literal_1, Literal_0_1)))

\* angle is a finite float
calculate_angle_factor(angle) == quadrant_factor(float_rem(angle, Literal_360))

\* results[key] = value
dict_set(results, key, value) == (key :> value) @@ results

\* no value
None == [none |-> TRUE]

\* step_2_divisor with the divisor of the in-app example for both directions
step_2_divisor_same(wind_direction) ==
    IF lower(wind_direction) = Literal_tailwind THEN Literal_180_0
    ELSE IF lower(wind_direction) = Literal_headwind THEN Literal_180_0
    ELSE None

\* step_2_divisor without the validating else branch
step_2_divisor_unvalidated(wind_direction) ==
    IF lower(wind_direction) = Literal_tailwind THEN Literal_225_0
    ELSE Literal_180_0

\* Step 2's choice of divisor; None when the else branch returns the error
step_2_divisor(wind_direction) ==
    IF lower(wind_direction) = Literal_tailwind THEN Literal_225_0
    ELSE IF lower(wind_direction) = Literal_headwind THEN Literal_180_0
    ELSE None

\* results["step_4"] = {formula, result}; results["adjusted_distance"] = ...
store_step_4(results, distance, sign, step_3, adjusted_distance) ==
    dict_set(dict_set(results, "step_4",
                 [formula |-> <<distance, sign, step_3>>,
                  result |-> adjusted_distance]),
             "adjusted_distance", adjusted_distance)

\* step_4 comparing wind_direction without lower()
step_4_case_sensitive(results, distance, step_3, wind_direction) ==
    IF wind_direction = Literal_headwind
    THEN store_step_4(results, distance, "+", step_3, FAdd(distance, step_3))
    ELSE IF wind_direction = Literal_tailwind
    THEN store_step_4(results, distance, "-", step_3, FSub(distance, step_3))
    ELSE dict_set(results, "adjusted_distance", FZero)

\* step_4 with the two directions' signs exchanged
step_4_swapped(results, distance, step_3, wind_direction) ==
    IF lower(wind_direction) = Literal_headwind
    THEN store_step_4(results, distance, "-", step_3, FSub(distance, step_3))
    ELSE IF lower(wind_direction) = Literal_tailwind
    THEN store_step_4(results, distance, "+", step_3, FAdd(distance, step_3))
    ELSE dict_set(results, "adjusted_distance", FZero)

\* Step 4: results with step_4 (when a branch is taken) and adjusted_distance,
\* which stays at its default 0.0 when no branch is taken
step_4(results, distance, step_3, wind_direction) ==
    IF lower(wind_direction) = Literal_headwind
    THEN store_step_4(results, distance, "+", step_3, FAdd(distance, step_3))
    ELSE IF lower(wind_direction) = Literal_tailwind
    THEN store_step_4(results, distance, "-", step_3, FSub(distance, step_3))
    ELSE dict_set(results, "adjusted_distance", FZero)

\* calculate_steps runs top to bottom; each operator below is the function
\* from one assignment on, with the values assigned so far as its parameters.
\* A formula is kept as the operands of its f-string, not as rendered text.

\* from step_3 = step_1 / step_2 on
after_step_3(results, distance, wind_direction, step_1, step_2, step_3) ==
    step_4(dict_set(results, "step_3",
               [formula |-> <<step_1, "/", step_2>>, result |-> step_3]),
           distance, step_3, wind_direction)

\* from step_2 = divisor / angle_factor on
after_step_2(results, distance, wind_direction, step_1, angle_factor, divisor, step_2) ==
    IF FIsZero(step_2) THEN [raise |-> ZeroDivisionError]
    ELSE after_step_3(dict_set(results, "step_2",
                          [divisor |-> divisor,
                           formula |-> <<divisor, "/", angle_factor>>,
                           result |-> step_2]),
                      distance, wind_direction, step_1, step_2,
                      FDiv(step_1, step_2))

\* from the choice of divisor on
after_divisor(results, distance, wind_direction, step_1, angle_factor, divisor) ==
    IF divisor = None THEN [error |-> InvalidWindDirection]
    ELSE IF FIsZero(angle_factor) THEN [raise |-> ZeroDivisionError]
    ELSE after_step_2(results, distance, wind_direction, step_1, angle_factor,
                      divisor, FDiv(divisor, angle_factor))

\* from angle_factor = calculate_angle_factor(angle) on
after_angle_factor(results, distance, wind_direction, step_1, angle_factor) ==
    after_divisor(dict_set(results, "angle_factor", angle_factor),
                  distance, wind_direction, step_1, angle_factor,
                  step_2_divisor(wind_direction))

\* from step_1 = distance * wind on
after_step_1(distance, wind, angle, wind_direction, step_1) ==
    after_angle_factor(dict_set(<<>>, "step_1",
                           [formula |-> <<distance, "*", wind>>,
                            result |-> step_1]),
                       distance, wind_direction, step_1,
                       calculate_angle_factor(angle))

\* The dict calculate_steps returns, or [raise |-> ...] when it raises.
calculate_steps(distance, wind, angle, wind_direction) ==
    after_step_1(distance, wind, angle, wind_direction, FMul(distance, wind))

\* ------------------------------------------------------------ main()
\* number_input and radio arguments of the form
DefaultDistance == 103

DefaultWind == 15

MaxWind == 30

DefaultAngle == 0

MaxAngle == 359

Literal_100 == FromInt(100)

\* main() runs top to bottom; each operator below is the script from one
\* point on.  What a run renders is a dict of the elements shown.  An uncaught
\* exception ends the run; Streamlit shows it in place of the elements the
\* run did not reach.

\* the comparison with the original distance
show_comparison(shown, distance_float, adjusted_distance, difference) ==
    IF FIsZero(distance_float)
    THEN dict_set(shown, "exception", ZeroDivisionError)
    ELSE dict_set(shown, "info",
             [original |-> distance_float,
              difference |-> difference,
              percent_change |->
                  FMul(FDiv(difference, distance_float), Literal_100),
              adjusted |-> adjusted_distance])

\* from "if 'error' in results" on
show_results(shown, distance, results) ==
    IF "raise" \in DOMAIN results
    THEN dict_set(shown, "exception", results.raise)
    ELSE IF "error" \in DOMAIN results
    THEN dict_set(shown, "error", results.error)
    ELSE show_comparison(dict_set(shown, "success", results.adjusted_distance),
                         distance, results.adjusted_distance,
                         FAbs(FSub(results.adjusted_distance, distance)))

\* from "if submit_button" on, with the diagram and the direction shown
after_diagram(distance, wind, angle, wind_direction, submit_button, shown) ==
    IF ~submit_button THEN shown
    ELSE show_results(shown, distance,
                      calculate_steps(distance, wind, angle, wind_direction))

\* one run of the script on the form's values
main(distance, wind, angle, wind_direction, submit_button) ==
    after_diagram(distance, wind, angle, wind_direction, submit_button,
        dict_set(dict_set(<<>>, "angle_factor", calculate_angle_factor(angle)),
                 "wind_direction",
                 IF wind_direction = Literal_headwind THEN "Headwind" ELSE "Tailwind"))

\* ------------------------------------------------------------ inputs
MaxDistanceHalves == 2

MaxWindHalves == 1

TinyWindExp == 60

MaxOctant == 8

MaxTurns == 1

\* the largest power of two a float holds
HugeDistance == FScale(FromInt(1), MaxExponent)

\* the float after 1.0
NextAfterOne == FAdd(FromInt(1), FScale(FromInt(1), 1 - Precision))

\* the smallest positive float (subnormal)
TinyDistance == FScale(FromInt(1), MinExponent)

\* the smallest positive normal float
SmallestNormal == FScale(FromInt(1), MinExponent + Precision - 1)

\* distances in yards: halves from 0, the form's default, the float after
\* 1.0, a distance whose product with a wind overflows, and two whose step 3
\* underflows
DistanceInputs ==
    {FScale(FromInt(h), -1) : h \in 0 .. MaxDistanceHalves}
        \cup {FromInt(DefaultDistance), NextAfterOne, HugeDistance,
              SmallestNormal, TinyDistance}

\* positive winds far below the form's step of 0.5
TinyWind == FScale(FromInt(1), -TinyWindExp)

AbsorbedWind == FScale(FromInt(1), -42)

StrictWind == FScale(FromInt(1), -40)

\* winds: multiples of the form's step 0.5, its default, its maximum, and
\* the small winds above
WindInputs ==
    {FScale(FromInt(h), -1) : h \in 0 .. MaxWindHalves}
        \cup {FromInt(DefaultWind), FromInt(MaxWind),
              StrictWind, AbsorbedWind, TinyWind}

\* angles for calculate_steps: every 45 degrees from -45
AngleInputs == {FromInt(45 * k) : k \in -1 .. MaxOctant}

\* whole degrees: MaxTurns turns below 0 up to MaxTurns above 359
WholeAngles == {FromInt(a) : a \in (-360 * MaxTurns) .. (360 * MaxTurns + 359)}

\* fractions of a degree: 0.5 (a + 360k is a float), 0.1 (a + 360k rounds),
\* 2^-60 and the smallest positive float (absorbed by 360), with their
\* negatives
SeedAngles ==
    LET seeds == {FScale(FromInt(1), -1), Literal_0_1, FScale(FromInt(1), -60),
                  FScale(FromInt(1), MinExponent)}
    IN  seeds \cup {FNeg(x) : x \in seeds}

\* angles for calculate_angle_factor: the whole degrees, and the fractions
\* with the turns added as a caller's float addition does
AllAngles ==
    WholeAngles \cup
        {FAdd(x, FromInt(360 * k)) : x \in SeedAngles, k \in -MaxTurns .. MaxTurns}

DirectionInputs ==
    { Literal_headwind, Literal_tailwind,
      <<"H","e","a","d","W","i","n","d">>,
      <<"T","A","I","L","W","I","N","D">>,
      <<"b","o","g","u","s">>,
      <<>> }

\* what the form's widgets let through
FormDistances == DistanceInputs

FormWinds == {FromInt(0), FromInt(DefaultWind), FromInt(MaxWind)}

\* the ends of the range, and a fraction typed into the field
FormAngles == {FromInt(DefaultAngle), FromInt(MaxAngle), FScale(FromInt(179), -1)}

FormDirections == {Literal_headwind, Literal_tailwind}

\* ------------------------------------------------------------ state
VARIABLES
    call,   \* the function under call and its arguments
    ret,    \* [done |-> FALSE], or [done |-> TRUE, value |-> what it returned]
    form,   \* the values of the form's widgets
    page    \* what the last run of the script rendered

vars == <<call, ret, form, page>>

FormDefaults ==
    [distance |-> FromInt(DefaultDistance), wind |-> FromInt(DefaultWind),
     angle |-> FromInt(DefaultAngle), wind_direction |-> Literal_headwind]

NoCall == [fn |-> "main"]

NotReturned == [done |-> FALSE]

\* ---- the page: the script runs once on load, and again on Calculate
Init ==
    /\ call = NoCall
    /\ ret = NotReturned
    /\ form = FormDefaults
    /\ page = main(form.distance, form.wind, form.angle, form.wind_direction, FALSE)

\* Widgets inside st.form do not rerun the script when edited.
SetDistance ==
    \E d \in FormDistances :
        /\ form' = [form EXCEPT !.distance = d]
        /\ UNCHANGED <<call, ret, page>>

SetWind ==
    \E w \in FormWinds :
        /\ form' = [form EXCEPT !.wind = w]
        /\ UNCHANGED <<call, ret, page>>

SetAngle ==
    \E a \in FormAngles :
        /\ form' = [form EXCEPT !.angle = a]
        /\ UNCHANGED <<call, ret, page>>

SetWindDirection ==
    \E w \in FormDirections :
        /\ form' = [form EXCEPT !.wind_direction = w]
        /\ UNCHANGED <<call, ret, page>>

\* the Calculate button: the script reruns with submit_button True
Submit ==
    /\ page' = main(form.distance, form.wind, form.angle, form.wind_direction, TRUE)
    /\ UNCHANGED <<call, ret, form>>

Next == SetDistance \/ SetWind \/ SetAngle \/ SetWindDirection \/ Submit

Spec == Init /\ [][Next]_vars

\* ---- calculate_angle_factor as a pure function
InitAngleFactor ==
    /\ call \in {[fn |-> "calculate_angle_factor", angle |-> a] : a \in AllAngles}
    /\ ret = NotReturned
    /\ form = FormDefaults
    /\ page = <<>>

ReturnAngleFactor ==
    /\ call.fn = "calculate_angle_factor"
    /\ ~ret.done
    /\ ret' = [done |-> TRUE, value |-> calculate_angle_factor(call.angle)]
    /\ UNCHANGED <<call, form, page>>

NextAngleFactor == ReturnAngleFactor

SpecAngleFactor == InitAngleFactor /\ [][NextAngleFactor]_vars

\* ---- calculate_steps as a pure function
InitSteps ==
    /\ call \in {[fn |-> "calculate_steps", distance |-> d, wind |-> w,
                  angle |-> a, wind_direction |-> wd] :
                    d \in DistanceInputs, w \in WindInputs,
                    a \in AngleInputs, wd \in DirectionInputs}
    /\ ret = NotReturned
    /\ form = FormDefaults
    /\ page = <<>>

ReturnSteps ==
    /\ call.fn = "calculate_steps"
    /\ ~ret.done
    /\ ret' = [done |-> TRUE,
               value |-> calculate_steps(call.distance, call.wind, call.angle,
                                         call.wind_direction)]
    /\ UNCHANGED <<call, form, page>>

NextSteps == ReturnSteps

SpecSteps == InitSteps /\ [][NextSteps]_vars

\* ------------------------------------------------------------ properties
\* the decimal num/den as a float literal reads it
Dec(num, den) == FDiv(FromInt(num), FromInt(den))

\* |x - y| <= tol
Within(x, y, tol) == FLe(FAbs(FSub(x, y)), tol)

\* x + y is a float: the float addition loses nothing (the error term of the
\* TwoSum algorithm is zero)
SumIsExact(x, y) ==
    LET s  == FAdd(x, y)
        xx == FSub(s, y)
        yy == FSub(s, xx)
    IN  FIsZero(FAdd(FSub(x, xx), FSub(y, yy)))

\* the remainder as C and JavaScript take it (sign of the dividend)
TruncMod(a, b) == fmod(a, b)

\* the normalization the specification writes, ((angle mod 360) + 360) mod
\* 360, in float arithmetic
SpecNormalize(angle) ==
    TruncMod(FAdd(TruncMod(angle, FromInt(360)), FromInt(360)), FromInt(360))

\* the spacing of the floats at x: one unit in the last place of x /= 0
Ulp(x) == FRound(FALSE, <<1>>, IF x.e < MinExponent THEN MinExponent ELSE x.e)

\* s and t are the same word up to the case of their letters
CaseEq(s, t) ==
    /\ Len(s) = Len(t)
    /\ \A i \in DOMAIN s :
           \/ s[i] = t[i]
           \/ \E j \in DOMAIN ascii_uppercase :
                  {s[i], t[i]} = {ascii_uppercase[j], ascii_lowercase[j]}

IsHeadwind(wd) == CaseEq(wd, <<"h","e","a","d","w","i","n","d">>)

IsTailwind(wd) == CaseEq(wd, <<"t","a","i","l","w","i","n","d">>)

AngleFactorReturned == call.fn = "calculate_angle_factor" /\ ret.done

StepsReturned == call.fn = "calculate_steps" /\ ret.done

TraceKeys == {"step_1", "angle_factor", "step_2", "step_3", "step_4", "adjusted_distance"}

\* C1: for every angle, negative and >= 360 included, calculate_angle_factor
\* returns f with 0.1 <= f <= 1.0.
\* (Violated: at 90 and 270 degrees the float result is 1 - 0.9 =
\* 0.09999999999999998, below the float 0.1.)
C1_AngleFactorInRange ==
    AngleFactorReturned =>
        /\ FLe(Dec(1, 10), ret.value)
        /\ FLe(ret.value, FromInt(1))

\* C2: for every angle whose normalized value n lies in [0, 360) the result
\* is the piecewise-linear reference value 1.0 - (n/90)*0.9 on [0, 90],
\* 0.1 + ((n-90)/90)*0.9 on (90, 180], 1.0 - ((n-180)/90)*0.9 on (180, 270],
\* 0.1 + ((n-270)/90)*0.9 on (270, 360), so that it is exactly 1.0 at 0 and
\* 180 and exactly 0.1 at 90 and 270.
\* (Violated with C1: at 90 and 270 degrees the result is
\* 0.09999999999999998, not the float 0.1.)
C2_PiecewiseLinearReference ==
    (AngleFactorReturned /\ FLt(float_rem(call.angle, FromInt(360)), FromInt(360))) =>
        LET n    == float_rem(call.angle, FromInt(360))
            one  == FromInt(1)
            at(k) == n = FromInt(k)
            q(k) == FMul(FDiv(FSub(n, FromInt(k)), FromInt(90)), Dec(9, 10))
            ref  == IF FLe(n, FromInt(90)) THEN FSub(one, q(0))
                    ELSE IF FLe(n, FromInt(180)) THEN FAdd(Dec(1, 10), q(90))
                    ELSE IF FLe(n, FromInt(270)) THEN FSub(one, q(180))
                    ELSE FAdd(Dec(1, 10), q(270))
        IN  /\ FLe(FZero, n)
            /\ ret.value = ref
            /\ (at(0) \/ at(180)) => ret.value = one
            /\ (at(90) \/ at(270)) => ret.value = Dec(1, 10)

C4_StepPipeline ==
    (StepsReturned /\ (IsHeadwind(call.wind_direction) \/ IsTailwind(call.wind_direction))) =>
        LET r    == ret.value
            head == IsHeadwind(call.wind_direction)
            example == /\ call.distance = FromInt(103)
                       /\ call.wind = FromInt(15)
                       /\ call.angle = FromInt(0)
            between(x, lo, hi) == FLe(Dec(lo, 10000), x) /\ FLe(x, Dec(hi, 10000))
        IN  /\ TraceKeys \subseteq DOMAIN r
            /\ r.step_1.result = FMul(call.distance, call.wind)
            /\ r.angle_factor = calculate_angle_factor(call.angle)
            /\ r.step_2.divisor = (IF head THEN FromInt(180) ELSE FromInt(225))
            /\ r.step_2.result = FDiv(r.step_2.divisor, r.angle_factor)
            /\ r.step_3.result = FDiv(r.step_1.result, r.step_2.result)
            /\ r.adjusted_distance =
                   (IF head THEN FAdd(call.distance, r.step_3.result)
                    ELSE FSub(call.distance, r.step_3.result))
            /\ r.step_4.result = r.adjusted_distance
            /\ (example /\ head) =>
                   /\ r.step_1.result = FromInt(1545)
                   /\ r.angle_factor = FromInt(1)
                   /\ r.step_2.result = FromInt(180)
                   /\ between(r.step_3.result, 85833, 85834)
                   /\ between(r.adjusted_distance, 1115833, 1115834)
            /\ (example /\ ~head) =>
                   /\ r.step_2.result = FromInt(225)
                   /\ between(r.step_3.result, 68666, 68667)
                   /\ between(r.adjusted_distance, 961333, 961334)

\* C4 witness: calculate_steps(103, 15, 0, "tailwind") has returned
C4_Witness ==
    /\ StepsReturned
    /\ call.distance = FromInt(103) /\ call.wind = FromInt(15)
    /\ call.angle = FromInt(0)
    /\ call.wind_direction = <<"t","a","i","l","w","i","n","d">>
    /\ "step_4" \in DOMAIN ret.value

\* C5: with a direction that is neither headwind nor tailwind in any case,
\* calculate_steps returns (it does not raise) a result whose only field is
\* the error message; no step and no adjusted_distance is in it.
C5_InvalidDirection ==
    (StepsReturned /\ ~IsHeadwind(call.wind_direction) /\ ~IsTailwind(call.wind_direction)) =>
        /\ DOMAIN ret.value = {"error"}
        /\ ret.value.error = "Invalid wind direction. Please use 'headwind' or 'tailwind'."

\* C5 witness: calculate_steps(.., "bogus") has returned
C5_Witness ==
    /\ StepsReturned
    /\ call.wind_direction = <<"b","o","g","u","s">>
    /\ "error" \in DOMAIN ret.value

\* C6: a case variant of 'headwind' ('tailwind') yields what 'headwind'
\* ('tailwind') yields - divisor, step results, adjusted_distance - and a
\* result with a divisor always has its step_4.
C6_CaseInsensitive ==
    StepsReturned =>
        LET canonical(wd) ==
                calculate_steps(call.distance, call.wind, call.angle, wd)
        IN  /\ IsHeadwind(call.wind_direction) =>
                   ret.value = canonical(<<"h","e","a","d","w","i","n","d">>)
            /\ IsTailwind(call.wind_direction) =>
                   ret.value = canonical(<<"t","a","i","l","w","i","n","d">>)
            /\ "step_2" \in DOMAIN ret.value => "step_4" \in DOMAIN ret.value

\* C6 witness: calculate_steps(.., "HeadWind") has returned a full trace
C6_Witness ==
    /\ StepsReturned
    /\ call.wind_direction = <<"H","e","a","d","W","i","n","d">>
    /\ "step_4" \in DOMAIN ret.value

\* C7: with a recognized direction calculate_steps never fails and never
\* divides by zero: angle_factor >= 0.1 > 0, step_2 >= 180 > 0, and the
\* result is the full trace with no error field.
\* (Violated with C1: at 90 and 270 degrees angle_factor is
\* 0.09999999999999998 < 0.1.)
C7_NoFailure ==
    (StepsReturned /\ (IsHeadwind(call.wind_direction) \/ IsTailwind(call.wind_direction))) =>
        /\ DOMAIN ret.value = TraceKeys
        /\ FLe(Dec(1, 10), ret.value.angle_factor)
        /\ FLe(FromInt(180), ret.value.step_2.result)

\* C8: as the in-app example states, for (103, 15, 0) step 2 is 180 / 1.0 =
\* 180 and step 3 is 1545 / 180 = 8.58333 for both directions, and the result
\* is 103 + 8.58333 = 111.58333 for headwind, 103 - 8.58333 = 94.41667 for
\* tailwind.  (Violated: the code divides by 225 for tailwind.)
C8_InAppExample ==
    (/\ StepsReturned
     /\ call.distance = FromInt(103) /\ call.wind = FromInt(15)
     /\ call.angle = FromInt(0)
     /\ (IsHeadwind(call.wind_direction) \/ IsTailwind(call.wind_direction))) =>
        LET r == ret.value
            shown(x, n) == Within(x, Dec(n, 100000), Dec(5, 1000000))
        IN  /\ r.step_2.divisor = FromInt(180)
            /\ r.step_2.result = FromInt(180)
            /\ shown(r.step_3.result, 858333)
            /\ IsHeadwind(call.wind_direction) => shown(r.adjusted_distance, 11158333)
            /\ IsTailwind(call.wind_direction) => shown(r.adjusted_distance, 9441667)

\* C9 as claimed: headwind gives adjusted_distance >= distance, tailwind
\* adjusted_distance <= distance, strictly when distance > 0 and wind > 0;
\* for wind in [0, 30] the tailwind result is never negative.
\* (Violated: a small positive wind's step 3 is absorbed by the addition, and
\* a distance whose product with the wind overflows gives -inf.)
C9_Claimed ==
    (StepsReturned /\ (IsHeadwind(call.wind_direction) \/ IsTailwind(call.wind_direction))) =>
        LET adj    == ret.value.adjusted_distance
            strict == FLt(FZero, call.distance) /\ FLt(FZero, call.wind)
        IN  /\ IsHeadwind(call.wind_direction) =>
                   IF strict THEN FLt(call.distance, adj) ELSE FLe(call.distance, adj)
            /\ IsTailwind(call.wind_direction) =>
                   /\ IF strict THEN FLt(adj, call.distance) ELSE FLe(adj, call.distance)
                   /\ FLe(call.wind, FromInt(30)) => FLe(FZero, adj)

\* C9 amended: headwind gives adjusted_distance >= distance and tailwind
\* adjusted_distance <= distance.  The inequality is strict whenever
\* distance > 0 and step 3 is at least one unit in the last place of
\* distance, which every wind >= 2^-40 achieves for a distance in the normal
\* range (>= 2^-1022); a smaller positive wind, or a subnormal distance, can
\* leave adjusted_distance == distance.  For wind in [0, 30] the tailwind
\* result is never negative unless distance * wind overflows, and then it is
\* -inf (and the headwind result inf).
C9_Direction ==
    (StepsReturned /\ (IsHeadwind(call.wind_direction) \/ IsTailwind(call.wind_direction))) =>
        LET adj      == ret.value.adjusted_distance
            step_1   == ret.value.step_1.result
            step_3   == ret.value.step_3.result
            positive == FLt(FZero, call.distance)
        IN  /\ IsHeadwind(call.wind_direction) => FLe(call.distance, adj)
            /\ IsTailwind(call.wind_direction) => FLe(adj, call.distance)
            /\ (positive /\ FLe(Ulp(call.distance), step_3)) =>
                   adj /= call.distance
            /\ (FLe(SmallestNormal, call.distance) /\ FLe(StrictWind, call.wind)) =>
                   FLe(Ulp(call.distance), step_3)
            /\ (IsTailwind(call.wind_direction) /\ FLe(call.wind, FromInt(30))) =>
                   IF FIsInf(step_1) THEN adj = FInf(TRUE) ELSE FLe(FZero, adj)
            /\ (IsHeadwind(call.wind_direction) /\ FIsInf(step_1)) =>
                   adj = FInf(FALSE)

\* C9 witness: the tailwind call with the float after 1.0, the wind 2^-40 and
\* 90 degrees has returned less than the distance, and not less than 0
C9_Witness ==
    /\ StepsReturned
    /\ call.distance = NextAfterOne /\ call.wind = StrictWind
    /\ call.angle = FromInt(90)
    /\ call.wind_direction = <<"T","A","I","L","W","I","N","D">>
    /\ FLe(Ulp(call.distance), ret.value.step_3.result)
    /\ FLt(ret.value.adjusted_distance, call.distance)
    /\ FLe(FZero, ret.value.adjusted_distance)

\* C10: after a submit of anything the form permits, the page shows neither
\* the error nor an exception, and the percent-change summary is computed,
\* distance = 0 included.  (Violated: distance 0 divides by zero.)
C10_SubmitNeverFaults ==
    /\ "error" \notin DOMAIN page
    /\ "exception" \notin DOMAIN page
    /\ "success" \in DOMAIN page => "info" \in DOMAIN page

====
